---------------------------- MODULE Spec2Model ----------------------------
(***************************************************************************)
(* VTU Internship Watcher (src/internship_watcher.py, run by               *)
(* src/run_scheduler.py): poll a paginated listing API, normalize the raw  *)
(* items, find the listings not seen before, notify the subscribers and    *)
(* persist the seen set.                                                   *)
(*                                                                         *)
(* Specifications:                                                         *)
(*   Spec          the scheduler running InternshipWatcher() +             *)
(*                 check_for_new_internships() again and again;            *)
(*   SpecFeed      Spec with the subscribers CSV drawn from FewCsv: the    *)
(*                 feed varies in full;                                    *)
(*   SpecDispatch  Spec with the upstream answers drawn from FewResponses: *)
(*                 the subscriber list varies in full;                     *)
(*   SpecStore     the runs on FewResponses and FewCsv, with               *)
(*                 seen_internships.json deleted or damaged between runs;  *)
(*   SpecNorm      process_internship_data applied to one raw item.        *)
(*                                                                         *)
(* Not modelled: the wall-clock values (scraped_at, last_updated), the     *)
(* rendered HTML body, and I/O errors of the local seen_internships.json   *)
(* write (save_seen_internships is taken to complete its write).  Only     *)
(* SpecStore lets anything but the program change the file.                *)
(***************************************************************************)
EXTENDS Integers, Sequences, FiniteSets, TLC

VARIABLES
    \* ---- durable and environment state
    disk,               \* seen_internships.json
    upstream,           \* the API's answers to page 1, 2, ... as far as revealed
    ranOnFeed,          \* a run completed its fetch since upstream last changed
    reportedBefore,     \* ids that earlier runs put in new_internships
    everOnDisk,         \* ids that seen_internships.json has held at some time
    \* ---- one run of run_watcher()
    pc,                 \* position in InternshipWatcher() / check_for_new_internships
    seen_internships,   \* self.seen_internships
    seenAtLoad,         \* what load_seen_internships returned in this run
    diskAtLoad,         \* the file as it was when this run loaded it
    replay,             \* this run started with ranOnFeed true
    page,               \* get_all_internships: page
    requested,          \* pages requested in this run, in order
    all_internships,    \* get_all_internships: all_internships
    detected,           \* the "Find new internships" loop ran
    new_internships,    \* check_for_new_internships: new_internships
    subscribers,        \* check_for_new_internships: subscribers
    idx,                \* position of the for-loop over subscribers
    sent,               \* check_for_new_internships: sent
    loggedSent,         \* the "sent/len(subscribers)" the run logged, <<>> if none
    attempts,           \* send_email_notification calls of this run, in order
    writes,             \* save_seen_internships calls: Len(attempts) at each
    csvRead,            \* what get_subscribers found at SUBSCRIBERS_CSV_URL
    environ,            \* which of the three mail settings os.getenv finds set
    \* ---- process_internship_data on its own
    data,               \* the raw item
    processed,          \* <<>> for None, <<listing>> otherwise
    nstage              \* "input" or "output"

runVars == <<pc, seen_internships, seenAtLoad, diskAtLoad, replay, page, requested,
             all_internships, detected, new_internships, subscribers, idx, sent,
             loggedSent, attempts, writes, csvRead, environ>>
envVars == <<disk, upstream, ranOnFeed, reportedBefore, everOnDisk>>
normVars == <<data, processed, nstage>>
vars == <<envVars, runVars, normVars>>

(***************************************************************************)
(* Bounds of the model.                                                    *)
(***************************************************************************)
MaxPages == 2       \* the upstream feed has at most this many pages
MaxFeedItems == 3   \* raw items the upstream feed holds, all pages together
MaxRows == 2        \* data rows of the subscribers CSV

(***************************************************************************)
(* JSON values as Python sees them.  k is the kind: "absent" (the key is   *)
(* not in the object), "none" (null), "num", "str", "dict".                *)
(***************************************************************************)
Absent == [k |-> "absent", n |-> 0, s |-> ""]
PyNone == [k |-> "none", n |-> 0, s |-> ""]
Num(i) == [k |-> "num", n |-> i, s |-> ""]
Str(t) == [k |-> "str", n |-> 0, s |-> t]
Dict   == [k |-> "dict", n |-> 0, s |-> ""]

\* bool(v)
Truthy(v) ==
    CASE v.k = "num"  -> v.n # 0
      [] v.k = "str"  -> v.s # ""
      [] v.k = "dict" -> TRUE
      [] OTHER        -> FALSE

\* obj.get(key)
Get(v) == IF v.k = "absent" THEN PyNone ELSE v

\* a or b
Or(a, b) == IF Truthy(a) THEN a ELSE b

\* str(v), also what an f-string prints
StrOf(v) ==
    CASE v.k = "num"  -> ToString(v.n)
      [] v.k = "str"  -> v.s
      [] v.k = "dict" -> "{...}"
      [] OTHER        -> "None"

\* s.strip() on the strings the model uses
Strip(s) ==
    CASE s = "  "      -> ""
      [] s = " Paid "  -> "Paid"
      [] s = " Email " -> "Email"
      [] OTHER         -> s

\* (obj.get(key) or '').strip(): a non-string truthy value has no strip()
StripOrEmpty(v) ==
    LET x == Or(Get(v), Str(""))
    IN  IF x.k = "str" THEN [err |-> FALSE, s |-> Strip(x.s)]
                       ELSE [err |-> TRUE, s |-> ""]

\* description[:500] on the strings the model uses ("LONG501" stands for a
\* text of 501 characters, "LONG500" for its first 500)
Truncate(s) == IF s = "LONG501" THEN "LONG500" ELSE s

website_base_url == "https://vtu.internyet.in/internships"

(***************************************************************************)
(* A raw item of the API.  company and city are objects with a "name"      *)
(* entry; their name is held in company_name / city_name and read only     *)
(* when the field itself is a dict.                                        *)
(***************************************************************************)
BaseItem ==
    [id |-> Num(42), title |-> Str("Backend Intern"),
     company |-> Dict, company_name |-> Str("Acme"),
     city |-> Absent, city_name |-> Absent,
     description |-> Absent, workMode |-> Absent, duration |-> Absent,
     deadline |-> Absent, type |-> Absent, stipend |-> Absent,
     internship_fee |-> Absent, is_job_offer |-> Absent,
     job_offer_package |-> Absent, slug |-> Absent]

\* (data.get('company') or {}).get('name'): a truthy non-dict has no get()
NameOf(obj, name) ==
    LET d == Or(Get(obj), Dict)
    IN  IF d.k # "dict" THEN [err |-> TRUE, v |-> PyNone]
        ELSE IF obj.k = "dict" THEN [err |-> FALSE, v |-> Get(name)]
        ELSE [err |-> FALSE, v |-> PyNone]

\* lines 177-184
StipendInfo(stipend, internship_type) ==
    LET s1 == IF Truthy(stipend) THEN "Rs." \o StrOf(stipend) ELSE ""
    IN  IF internship_type = "Paid" /\ s1 = "" THEN "Paid"
        ELSE IF internship_type = "Free" THEN "Free"
        ELSE s1

\* process_internship_data: <<>> is None
process_internship_data(d) ==
    LET internship_id == IF d.id.k = "absent" THEN "" ELSE StrOf(d.id)
        title         == StripOrEmpty(d.title)
        company       == NameOf(d.company, d.company_name)
        company_name  == StripOrEmpty(company.v)
        city          == NameOf(d.city, d.city_name)
        city_name     == StripOrEmpty(city.v)
        description   == StripOrEmpty(d.description)
        work_mode     == StripOrEmpty(d.workMode)
        duration      == StripOrEmpty(d.duration)
        deadline      == StripOrEmpty(d.deadline)
        itype         == StripOrEmpty(d.type)
        stipend       == Or(Get(d.stipend), Get(d.internship_fee))
        job_offer     == Truthy(d.is_job_offer)
        job_package   == StripOrEmpty(d.job_offer_package)
        slug          == Or(Get(d.slug), Str(""))
        link          == IF Truthy(slug) THEN website_base_url \o "/" \o StrOf(slug)
                         ELSE website_base_url
        failed        == \/ title.err \/ company.err \/ company_name.err
                         \/ city.err \/ city_name.err \/ description.err
                         \/ work_mode.err \/ duration.err \/ deadline.err
                         \/ itype.err \/ job_package.err
        listing ==
            [id |-> internship_id, title |-> title.s, company |-> company_name.s,
             location |-> city_name.s, description |-> Truncate(description.s),
             work_mode |-> work_mode.s,
             duration |-> IF duration.s # "" THEN duration.s \o " months" ELSE "",
             deadline |-> deadline.s, type |-> itype.s,
             stipend |-> StipendInfo(stipend, itype.s),
             job_offer |-> job_offer, job_package |-> job_package.s, link |-> link]
    IN  IF failed THEN <<>>
        ELSE IF title.s # "" /\ company_name.s # "" THEN <<listing>>
        ELSE <<>>


(***************************************************************************)
(* The upstream feed.                                                      *)
(***************************************************************************)
ItemA == [BaseItem EXCEPT !.id = Num(1), !.slug = Str("backend-intern")]
ItemB == [BaseItem EXCEPT !.id = Absent, !.title = Str("Data Intern")]
ItemR == [BaseItem EXCEPT !.id = Num(2), !.company = Absent]
FeedItems == {ItemA, ItemB, ItemR}

SeqsUpTo(S, n) == UNION {[1..k -> S] : k \in 0..n}

\* What one GET of ?page=p can come back with.  "transport" is a
\* RequestException (connection, timeout, non-2xx), "decode" a body that is
\* not JSON, "app_error" success=false, "no_data_key" a success envelope whose
\* data object has no item array, "ok" the full envelope.
FailureKinds == {"transport", "decode", "app_error", "no_data_key"}
LastPageValues == {Absent, PyNone} \cup {Num(i) : i \in 1..MaxPages}
Responses ==
    {[kind |-> f, data |-> <<>>, last_page |-> Absent] : f \in FailureKinds}
    \cup [kind : {"ok"}, data : SeqsUpTo(FeedItems, MaxFeedItems),
          last_page : LastPageValues]

\* A few answers, all of a one-page feed: a failure, a page of rejected items,
\* one listing (either of the two), two listings.
FewResponses ==
    {[kind |-> "transport", data |-> <<>>, last_page |-> Absent],
     [kind |-> "ok", data |-> <<ItemR>>, last_page |-> Num(1)],
     [kind |-> "ok", data |-> <<ItemA>>, last_page |-> Num(1)],
     [kind |-> "ok", data |-> <<ItemB>>, last_page |-> Num(1)],
     [kind |-> "ok", data |-> <<ItemA, ItemB>>, last_page |-> Num(1)]}

RECURSIVE ItemsIn(_)
\* The raw items of the answers revealed so far.
ItemsIn(answers) ==
    IF answers = <<>> THEN 0
    ELSE Len(Head(answers).data) + ItemsIn(Tail(answers))

\* fetch_internships_from_api: {} on every failure, else the envelope's data
fetch_internships_from_api(r) ==
    IF r.kind \in {"transport", "decode", "app_error"}
    THEN [empty |-> TRUE, has_data |-> FALSE, data |-> <<>>, last_page |-> Absent]
    ELSE [empty |-> FALSE, has_data |-> r.kind = "ok", data |-> r.data,
          last_page |-> r.last_page]

RECURSIVE ProcessAll(_)
\* lines 130-133: the processed items of one page, in order, None dropped
ProcessAll(items) ==
    IF items = <<>> THEN <<>>
    ELSE process_internship_data(Head(items)) \o ProcessAll(Tail(items))

\* line 138: page >= api_data.get('last_page', 1); "error" is the TypeError
\* of comparing an int with None
ReachedLastPageStrict(p, last_page) ==
    IF last_page.k = "none" THEN "error"
    ELSE IF p > (IF last_page.k = "absent" THEN 1 ELSE last_page.n) THEN "yes"
    ELSE "no"

ReachedLastPage(p, last_page) ==
    IF last_page.k = "none" THEN "error"
    ELSE IF p >= (IF last_page.k = "absent" THEN 1 ELSE last_page.n) THEN "yes"
    ELSE "no"

\* One turn of the while-loop of get_all_internships on the answer r to page p:
\* the items it appends and whether the loop goes on to page p + 1.
LoopTurn(p, r) ==
    LET api_data == fetch_internships_from_api(r)
    IN  IF api_data.empty \/ ~api_data.has_data
        THEN [items |-> <<>>, more |-> FALSE]
        ELSE IF api_data.data = <<>>
        THEN [items |-> <<>>, more |-> FALSE]
        ELSE [items |-> ProcessAll(api_data.data),
              more  |-> ReachedLastPage(p, api_data.last_page) = "no"]

(***************************************************************************)
(* The seen-state file.                                                    *)
(***************************************************************************)
NoFile == [state |-> "missing", ids |-> {}]
BadFile == [state |-> "corrupt", ids |-> {}]

load_seen_internships_forgets(file) == {}

\* load_seen_internships: the ids of a parseable file, else the empty set
load_seen_internships(file) ==
    IF file.state = "valid" THEN file.ids ELSE {}

save_seen_internships_stale(seen) ==
    [state |-> "valid", ids |-> seenAtLoad]

\* save_seen_internships: the file written from self.seen_internships
save_seen_internships(seen) ==
    [state |-> "valid", ids |-> seen]

(***************************************************************************)
(* Change detection, lines 368-373.                                        *)
(***************************************************************************)
RECURSIVE FindNewFromBlankId(_, _, _)
FindNewFromBlankId(batch, seen, new) ==
    IF batch = <<>> THEN [new |-> new, seen |-> seen]
    ELSE LET internship == Head(batch)
         IN  IF internship.id = "" \/ internship.id \notin seen
             THEN FindNewFromBlankId(Tail(batch), seen \cup {internship.id},
                                     Append(new, internship))
             ELSE FindNewFromBlankId(Tail(batch), seen, new)

RECURSIVE FindNewFrom(_, _, _)
FindNewFrom(batch, seen, new) ==
    IF batch = <<>> THEN [new |-> new, seen |-> seen]
    ELSE LET internship == Head(batch)
         IN  IF internship.id \notin seen
             THEN FindNewFrom(Tail(batch), seen \cup {internship.id},
                              Append(new, internship))
             ELSE FindNewFrom(Tail(batch), seen, new)

RECURSIVE FindNewNoMark(_, _, _)
FindNewNoMark(batch, seen, new) ==
    IF batch = <<>> THEN [new |-> new, seen |-> seen]
    ELSE LET internship == Head(batch)
         IN  IF internship.id \notin seen
             THEN FindNewNoMark(Tail(batch), seen, Append(new, internship))
             ELSE FindNewNoMark(Tail(batch), seen, new)

FindNewUnmarked(batch, seen) == FindNewNoMark(batch, seen, <<>>)

FindNewReset(batch, seen) == FindNewFrom(batch, {}, <<>>)

FindNew(batch, seen) == FindNewFrom(batch, seen, <<>>)

\* line 362: if not current_internships: return
NeverReturnsEarly(current_internships) == FALSE

ReturnsEarly(current_internships) == current_internships = <<>>

(***************************************************************************)
(* Subscribers, lines 240-270.  The CSV is held already split into lines   *)
(* and fields.                                                             *)
(***************************************************************************)
recipient_email == "op@x"
Lower(s) == IF s = "Email" THEN "email" ELSE s
HasAt(s) == s \in {"a@x", "op@x"}

CsvHeaders == {<<"email", "created_at_iso">>, <<"name", " Email ">>, <<"address">>}
CsvRows == {<<"a@x", "t1">>, <<"x", "op@x">>, <<"op@x">>, <<"not-an-address", "t2">>}
CsvInputs ==
    [url_set : {FALSE}, fetch_ok : {FALSE}, lines : {<<>>}]
    \cup [url_set : {TRUE}, fetch_ok : {FALSE}, lines : {<<>>}]
    \cup [url_set : {TRUE}, fetch_ok : {TRUE},
          lines : {<<>>} \cup {<<h>> \o rows : h \in CsvHeaders,
                                               rows \in SeqsUpTo(CsvRows, MaxRows)}]

\* SUBSCRIBERS_CSV_URL is not set.
NoCsv == [url_set |-> FALSE, fetch_ok |-> FALSE, lines |-> <<>>]

\* Two CSVs: no URL configured, and one subscriber.
FewCsv ==
    {NoCsv,
     [url_set |-> TRUE, fetch_ok |-> TRUE,
      lines |-> <<<<"email", "created_at_iso">>, <<"a@x", "t1">>>>]}

IndexOf(seq, x) == CHOOSE i \in 1..Len(seq) : seq[i] = x /\ \A j \in 1..(i-1) : seq[j] # x

RECURSIVE EmailsOf(_, _)
EmailsOf(rows, email_idx) ==
    IF rows = <<>> THEN <<>>
    ELSE LET parts == Head(rows)
             rest  == EmailsOf(Tail(rows), email_idx)
         IN  IF Len(parts) < email_idx THEN rest
             ELSE LET email == Strip(parts[email_idx])
                  IN  IF email # "" /\ HasAt(email) THEN <<email>> \o rest ELSE rest

get_subscribers(csv) ==
    IF ~csv.url_set \/ ~csv.fetch_ok \/ csv.lines = <<>> THEN <<>>
    ELSE LET headers == [i \in 1..Len(csv.lines[1]) |-> Lower(Strip(csv.lines[1][i]))]
         IN  IF \A i \in 1..Len(headers) : headers[i] # "email" THEN <<>>
             ELSE EmailsOf(Tail(csv.lines), IndexOf(headers, "email"))

(***************************************************************************)
(* Sending, lines 213-238.                                                 *)
(***************************************************************************)
SubjectNoNew == "No New VTU Internships Today"
SubjectNew(internships) == ToString(Len(internships)) \o " New VTU Internship(s) Found!"

MessageNoFallback(internships, to_email, subject) ==
    [to      |-> to_email,
     subject |-> IF subject # "" THEN subject
                 ELSE IF internships # <<>> THEN SubjectNew(internships)
                 ELSE SubjectNoNew]

MessageIgnoresRecipient(internships, to_email, subject) ==
    [to      |-> recipient_email,
     subject |-> IF subject # "" THEN subject
                 ELSE IF internships # <<>> THEN SubjectNew(internships)
                 ELSE SubjectNoNew]

\* The message send_email_notification builds (lines 218-227).
Message(internships, to_email, subject) ==
    [to      |-> IF to_email # "" THEN to_email ELSE recipient_email,
     subject |-> IF subject # "" THEN subject
                 ELSE IF internships # <<>> THEN SubjectNew(internships)
                 ELSE SubjectNoNew]

\* What the caller of send_email_notification observes when SMTP succeeds
\* (smtp_ok) or throws: the except of line 237 swallows every failure.
send_email_notification(smtp_ok) ==
    [delivered |-> smtp_ok, raises |-> FALSE]

\* lines 381-386: the for-loop's next position after one send
NextRecipientAbortOnFailure(i, outcome) ==
    IF outcome.delivered THEN i + 1 ELSE Len(subscribers) + 1

NextRecipient(i, outcome) == i + 1

\* lines 377-403: save_seen_internships follows dispatch only in the
\* has-new branch
AfterDispatchNeverSaves(new) == "done"

AfterDispatch(new) == IF new # <<>> THEN "save" ELSE "done"


(***************************************************************************)
(* The scheduler's runs: run_watcher() of src/run_scheduler.py.            *)
(***************************************************************************)
ConfigKeys == {"SENDER_EMAIL", "SENDER_PASSWORD", "RECIPIENT_EMAIL"}

ConfigCompleteIfAny(env) == \E key \in ConfigKeys : env[key]

\* line 52: all([self.sender_email, self.sender_password, self.recipient_email])
ConfigComplete(env) == \A key \in ConfigKeys : env[key]

IdsOf(listings) == {listings[i].id : i \in 1..Len(listings)}

\* The locals of a run before InternshipWatcher() is constructed.
NoRun ==
    /\ pc = "idle"
    /\ seen_internships = {}
    /\ seenAtLoad = {}
    /\ diskAtLoad = NoFile
    /\ replay = FALSE
    /\ page = 1
    /\ requested = <<>>
    /\ all_internships = <<>>
    /\ detected = FALSE
    /\ new_internships = <<>>
    /\ subscribers = <<>>
    /\ idx = 1
    /\ sent = 0
    /\ loggedSent = <<>>
    /\ attempts = <<>>
    /\ writes = <<>>
    /\ csvRead = NoCsv
    /\ environ = [key \in ConfigKeys |-> TRUE]

NormIdle ==
    /\ data = BaseItem
    /\ processed = <<>>
    /\ nstage = "idle"

Init ==
    /\ disk \in {NoFile, BadFile}
    /\ upstream = <<>>
    /\ ranOnFeed = FALSE
    /\ reportedBefore = {}
    /\ everOnDisk = {}
    /\ NoRun
    /\ NormIdle

\* InternshipWatcher(): lines 39-53 with every setting present
Construct ==
    /\ pc = "idle"
    /\ \E env \in [ConfigKeys -> BOOLEAN] :
          /\ ConfigComplete(env)
          /\ environ' = env
          /\ pc' = "fetch"
    /\ seen_internships' = load_seen_internships(disk)
    /\ seenAtLoad' = load_seen_internships(disk)
    /\ diskAtLoad' = disk
    /\ replay' = ranOnFeed
    /\ UNCHANGED <<page, requested, all_internships, detected, new_internships,
                   subscribers, idx, sent, loggedSent, attempts, writes,
                   csvRead>>
    /\ UNCHANGED <<envVars, normVars>>

\* InternshipWatcher(): line 52 finds a setting missing and raises ValueError
ConstructFails ==
    /\ pc = "idle"
    /\ \E env \in [ConfigKeys -> BOOLEAN] :
          /\ ~ConfigComplete(env)
          /\ environ' = env
          /\ pc' = "failed"
    /\ seen_internships' = load_seen_internships(disk)
    /\ seenAtLoad' = load_seen_internships(disk)
    /\ diskAtLoad' = disk
    /\ replay' = ranOnFeed
    /\ UNCHANGED <<page, requested, all_internships, detected, new_internships,
                   subscribers, idx, sent, loggedSent, attempts, writes,
                   csvRead>>
    /\ UNCHANGED <<envVars, normVars>>

\* get_all_internships, lines 116-149: one turn of the loop, the upstream
\* answering from the set answers.  The answer to a page the upstream already
\* gave in an earlier run on the same feed is that same answer.
FetchPageFrom(answers) ==
    /\ pc = "fetch"
    /\ page <= MaxPages
    /\ \E r \in answers :
          /\ page <= Len(upstream) => r = upstream[page]
          /\ page > Len(upstream) =>
                Len(r.data) + ItemsIn(upstream) <= MaxFeedItems
          /\ upstream' = IF page <= Len(upstream) THEN upstream
                         ELSE Append(upstream, r)
          /\ LET turn == LoopTurn(page, r)
             IN  /\ all_internships' = all_internships \o turn.items
                 /\ page' = IF turn.more THEN page + 1 ELSE page
                 /\ pc' = IF turn.more THEN "fetch" ELSE "check"
                 /\ ranOnFeed' = IF turn.more THEN ranOnFeed ELSE TRUE
    /\ requested' = Append(requested, page)
    /\ UNCHANGED <<disk, reportedBefore, everOnDisk, normVars>>
    /\ UNCHANGED <<seen_internships, seenAtLoad, diskAtLoad, replay, detected,
                   new_internships, subscribers, idx, sent, loggedSent, attempts,
                   writes,
                   csvRead, environ>>

FetchPage == FetchPageFrom(Responses)

FetchPageFew == FetchPageFrom(FewResponses)

\* lines 362-364: nothing fetched, return
ReturnNoInternships ==
    /\ pc = "check"
    /\ ReturnsEarly(all_internships)
    /\ pc' = "done"
    /\ UNCHANGED <<envVars, normVars>>
    /\ UNCHANGED <<seen_internships, seenAtLoad, diskAtLoad, replay, page, requested,
                   all_internships, detected, new_internships, subscribers, idx,
                   sent, loggedSent, attempts, writes,
                   csvRead, environ>>

\* lines 368-373: the change detector
DetectNew ==
    /\ pc = "check"
    /\ ~ReturnsEarly(all_internships)
    /\ LET found == FindNew(all_internships, seen_internships)
       IN  /\ new_internships' = found.new
           /\ seen_internships' = found.seen
    /\ detected' = TRUE
    /\ pc' = "subscribers"
    /\ UNCHANGED <<envVars, normVars>>
    /\ UNCHANGED <<seenAtLoad, diskAtLoad, replay, page, requested, all_internships,
                   subscribers, idx, sent, loggedSent, attempts, writes,
                   csvRead, environ>>

\* line 376, and lines 380 / 394 (sent = 0), the CSV drawn from csvs
GetSubscribersFrom(csvs) ==
    /\ pc = "subscribers"
    /\ \E csv \in csvs :
          /\ subscribers' = get_subscribers(csv)
          /\ csvRead' = csv
    /\ idx' = 1
    /\ sent' = 0
    /\ pc' = "dispatch"
    /\ UNCHANGED <<envVars, normVars>>
    /\ UNCHANGED <<seen_internships, seenAtLoad, diskAtLoad, replay, page, requested,
                   all_internships, detected, new_internships, loggedSent, attempts,
                   writes, environ>>

GetSubscribers == GetSubscribersFrom(CsvInputs)

GetSubscribersFew == GetSubscribersFrom(FewCsv)

\* The subject argument of the call: none at lines 383 / 389, the no-new
\* subject at lines 397 / 403.
SubjectArg == IF new_internships # <<>> THEN "" ELSE SubjectNoNew

\* lines 381-386 / 395-400: one turn of the loop over subscribers
SendToSubscriber ==
    /\ pc = "dispatch"
    /\ subscribers # <<>>
    /\ idx <= Len(subscribers)
    /\ \E smtp_ok \in BOOLEAN :
          LET outcome == send_email_notification(smtp_ok)
              msg     == Message(new_internships, subscribers[idx], SubjectArg)
          IN  /\ attempts' = Append(attempts, [to |-> msg.to, subject |-> msg.subject,
                                               ok |-> outcome.delivered])
              /\ sent' = IF outcome.raises THEN sent ELSE sent + 1
              /\ idx' = NextRecipient(idx, outcome)
    /\ UNCHANGED <<envVars, normVars>>
    /\ UNCHANGED <<pc, seen_internships, seenAtLoad, diskAtLoad, replay, page,
                   requested, all_internships, detected, new_internships,
                   subscribers, loggedSent, writes,
                   csvRead, environ>>

\* lines 387 / 401: the loop is over, log sent/len(subscribers)
LogSent ==
    /\ pc = "dispatch"
    /\ subscribers # <<>>
    /\ idx > Len(subscribers)
    /\ loggedSent' = <<sent, Len(subscribers)>>
    /\ pc' = AfterDispatch(new_internships)
    /\ UNCHANGED <<envVars, normVars>>
    /\ UNCHANGED <<seen_internships, seenAtLoad, diskAtLoad, replay, page, requested,
                   all_internships, detected, new_internships, subscribers, idx,
                   sent, attempts, writes,
                   csvRead, environ>>

\* lines 389 / 403: no subscribers, one message to self.recipient_email; an
\* exception here would reach line 405 and end the run
SendToDefault ==
    /\ pc = "dispatch"
    /\ subscribers = <<>>
    /\ \E smtp_ok \in BOOLEAN :
          LET outcome == send_email_notification(smtp_ok)
              msg     == Message(new_internships, "", SubjectArg)
          IN  /\ attempts' = Append(attempts, [to |-> msg.to, subject |-> msg.subject,
                                               ok |-> outcome.delivered])
              /\ pc' = IF outcome.raises THEN "done"
                       ELSE AfterDispatch(new_internships)
    /\ UNCHANGED <<envVars, normVars>>
    /\ UNCHANGED <<seen_internships, seenAtLoad, diskAtLoad, replay, page, requested,
                   all_internships, detected, new_internships, subscribers, idx,
                   sent, loggedSent, writes,
                   csvRead, environ>>

\* line 390: self.save_seen_internships()
SaveSeen ==
    /\ pc = "save"
    /\ disk' = save_seen_internships(seen_internships)
    /\ everOnDisk' = everOnDisk \cup seen_internships
    /\ writes' = Append(writes, Len(attempts))
    /\ pc' = "done"
    /\ UNCHANGED <<upstream, ranOnFeed, reportedBefore, normVars>>
    /\ UNCHANGED <<seen_internships, seenAtLoad, diskAtLoad, replay, page, requested,
                   all_internships, detected, new_internships, subscribers, idx,
                   sent, loggedSent, attempts, csvRead, environ>>

\* run_watcher returns (or logs the constructor's error); the watcher object
\* is dropped
Return ==
    /\ pc \in {"done", "failed"}
    /\ reportedBefore' = reportedBefore \cup IdsOf(new_internships)
    /\ pc' = "idle"
    /\ seen_internships' = {}
    /\ seenAtLoad' = {}
    /\ diskAtLoad' = NoFile
    /\ replay' = FALSE
    /\ page' = 1
    /\ requested' = <<>>
    /\ all_internships' = <<>>
    /\ detected' = FALSE
    /\ new_internships' = <<>>
    /\ subscribers' = <<>>
    /\ idx' = 1
    /\ sent' = 0
    /\ loggedSent' = <<>>
    /\ attempts' = <<>>
    /\ writes' = <<>>
    /\ csvRead' = NoCsv
    /\ environ' = [key \in ConfigKeys |-> TRUE]
    /\ UNCHANGED <<disk, upstream, ranOnFeed, everOnDisk, normVars>>

\* Between two runs the upstream feed changes: its answers are open again.
UpstreamChanges ==
    /\ pc = "idle"
    /\ upstream # <<>>
    /\ upstream' = <<>>
    /\ ranOnFeed' = FALSE
    /\ UNCHANGED <<disk, reportedBefore, everOnDisk, runVars, normVars>>

\* Between two runs seen_internships.json is deleted or damaged: the next
\* load finds no file (line 57) or cannot parse it (line 62).
FileLost ==
    /\ pc = "idle"
    /\ disk.state = "valid"
    /\ disk' \in {NoFile, BadFile}
    /\ UNCHANGED <<upstream, ranOnFeed, reportedBefore, everOnDisk, runVars, normVars>>

Next ==
    \/ Construct
    \/ ConstructFails
    \/ FetchPage
    \/ ReturnNoInternships
    \/ DetectNew
    \/ GetSubscribers
    \/ SendToSubscriber
    \/ LogSent
    \/ SendToDefault
    \/ SaveSeen
    \/ Return
    \/ UpstreamChanges

Spec == Init /\ [][Next]_vars

NextFeed ==
    \/ Construct
    \/ ConstructFails
    \/ FetchPage
    \/ ReturnNoInternships
    \/ DetectNew
    \/ GetSubscribersFew
    \/ SendToSubscriber
    \/ LogSent
    \/ SendToDefault
    \/ SaveSeen
    \/ Return
    \/ UpstreamChanges

SpecFeed == Init /\ [][NextFeed]_vars

NextDispatch ==
    \/ Construct
    \/ ConstructFails
    \/ FetchPageFew
    \/ ReturnNoInternships
    \/ DetectNew
    \/ GetSubscribers
    \/ SendToSubscriber
    \/ LogSent
    \/ SendToDefault
    \/ SaveSeen
    \/ Return
    \/ UpstreamChanges

SpecDispatch == Init /\ [][NextDispatch]_vars

\* The runs on a few feeds and subscriber lists, the file open to loss
\* between them.
NextStore ==
    \/ Construct
    \/ ConstructFails
    \/ FetchPageFew
    \/ ReturnNoInternships
    \/ DetectNew
    \/ GetSubscribersFew
    \/ SendToSubscriber
    \/ LogSent
    \/ SendToDefault
    \/ SaveSeen
    \/ Return
    \/ UpstreamChanges
    \/ FileLost

SpecStore == Init /\ [][NextStore]_vars

(***************************************************************************)
(* process_internship_data on its own: one raw item in, None or a listing  *)
(* out.                                                                    *)
(***************************************************************************)
TitleValues == {Str("Backend Intern"), Str("  "), Absent, PyNone, Num(7)}
CompanyValues ==
    {<<Dict, Str("Acme")>>, <<Dict, Str("  ")>>, <<Dict, Absent>>, <<Dict, PyNone>>,
     <<Absent, Absent>>, <<PyNone, Absent>>, <<Str("Acme"), Absent>>}
TypeValues == {Absent, PyNone, Str("Paid"), Str("Free"), Str(" Paid "), Str("Unpaid"),
               Num(1)}
StipendValues == {Absent, PyNone, Num(0), Num(5000), Str("5000"), Str("")}
FeeValues == {Absent, Num(0), Num(250)}
OtherFields == {"id", "city", "description", "workMode", "duration", "deadline",
                "is_job_offer", "job_offer_package", "slug"}
OtherValues == {PyNone, Num(3), Str("text"), Str("  "), Str("LONG501"), Dict}

NormInputs ==
    {[BaseItem EXCEPT !.title = t, !.company = c[1], !.company_name = c[2],
                      !.type = ty, !.stipend = st, !.internship_fee = fee] :
        t \in TitleValues, c \in CompanyValues, ty \in TypeValues,
        st \in StipendValues, fee \in FeeValues}
    \cup
    {[BaseItem EXCEPT !.title = t, !.company = c[1], !.company_name = c[2],
                      ![f] = v] :
        t \in TitleValues, c \in CompanyValues, f \in OtherFields, v \in OtherValues}

InitNorm ==
    /\ disk = NoFile
    /\ upstream = <<>>
    /\ ranOnFeed = FALSE
    /\ reportedBefore = {}
    /\ everOnDisk = {}
    /\ NoRun
    /\ data \in NormInputs
    /\ processed = <<>>
    /\ nstage = "input"

Normalize ==
    /\ nstage = "input"
    /\ processed' = process_internship_data(data)
    /\ nstage' = "output"
    /\ UNCHANGED <<data, envVars, runVars>>

NextNorm == Normalize

SpecNorm == InitNorm /\ [][NextNorm]_vars

(***************************************************************************)
(* Properties.                                                             *)
(***************************************************************************)
PastFetch == pc \in {"check", "subscribers", "dispatch", "save", "done"}
Successes == Cardinality({i \in 1..Len(attempts) : attempts[i].ok})
Failures == Cardinality({i \in 1..Len(attempts) : ~attempts[i].ok})
Recipients == [i \in 1..Len(attempts) |-> attempts[i].to]
\* The identifiers a seen-state file durably holds.
DiskIds(file) == IF file.state = "valid" THEN file.ids ELSE {}

\* C1: the count the run logs as sent is the number of deliveries that
\* succeeded: N - k when k of the N deliveries failed.
C1_SentCountsSuccesses ==
    loggedSent # <<>> =>
        /\ loggedSent[2] = Len(subscribers)
        /\ loggedSent[1] = Len(subscribers) - Failures
        /\ loggedSent[1] = Successes

\* C2: with subscribers s1..sN, once the loop has made j turns the attempts
\* are exactly s1..sj, one each and in list order, whatever failed before;
\* the loop never stops early, never repeats a recipient, and the run goes on
\* to log its count with all N attempted.
C2_EveryRecipientOnceInOrder ==
    (pc \in {"dispatch", "save", "done"} /\ subscribers # <<>>) =>
        /\ Len(attempts) = idx - 1
        /\ idx <= Len(subscribers) + 1
        /\ \A i \in 1..Len(attempts) : attempts[i].to = subscribers[i]
        /\ pc \in {"save", "done"} =>
              /\ Recipients = subscribers
              /\ loggedSent # <<>>

C2_Witness ==
    /\ pc = "done"
    /\ Len(subscribers) = 2
    /\ Len(attempts) = 2
    /\ ~attempts[1].ok
    /\ attempts[2].ok

\* The no-new message went to every subscriber, or to the default address
\* when there are none.
AckSentToAll ==
    /\ \A i \in 1..Len(attempts) : attempts[i].subject = SubjectNoNew
    /\ IF subscribers # <<>> THEN Recipients = subscribers
       ELSE Recipients = <<recipient_email>>

\* C3 as stated: every finished run whose new list is empty has sent the
\* no-new message to every subscriber (or the default address), whatever was
\* fetched.
C3_NoNewAlwaysAcknowledged ==
    (pc = "done" /\ new_internships = <<>>) => AckSentToAll

\* C3 amended: a finished run whose normalized batch is non-empty and whose
\* new list is empty has sent the no-new message to every subscriber (or the
\* default address); a run whose batch is empty has sent nothing.
C3_NoNewAcknowledgedWhenFetched ==
    /\ (pc = "done" /\ new_internships = <<>> /\ all_internships # <<>>) => AckSentToAll
    /\ (pc = "done" /\ all_internships = <<>>) => attempts = <<>>

C3_Witness ==
    /\ pc = "done"
    /\ all_internships # <<>>
    /\ new_internships = <<>>
    /\ Len(subscribers) = 2
    /\ subscribers[1] # subscribers[2]
    /\ ~attempts[1].ok

\* C4 as stated: a finished run that reached the change detector wrote the
\* file exactly once, after its last delivery attempt, new listings or not.
C4_WrittenOncePerRun ==
    (pc = "done" /\ detected) =>
        /\ Len(writes) = 1
        /\ writes[1] = Len(attempts)

\* C4 amended: a run that found a new listing writes the file exactly once,
\* after the last delivery attempt of the run (all attempts made, failed or
\* not); a run that found none does not write it; before and during dispatch
\* the file is untouched.
C4_WrittenOnceWhenNew ==
    /\ (pc = "done" /\ detected /\ new_internships # <<>>) =>
          /\ Len(writes) = 1
          /\ writes[1] = Len(attempts)
          /\ Len(attempts) = IF subscribers = <<>> THEN 1 ELSE Len(subscribers)
          /\ disk = save_seen_internships(seen_internships)
    /\ (pc = "done" /\ new_internships = <<>>) => (writes = <<>> /\ disk = diskAtLoad)
    /\ pc \in {"fetch", "check", "subscribers", "dispatch", "save", "failed"} =>
          (writes = <<>> /\ disk = diskAtLoad)

C4_Witness ==
    /\ pc = "done"
    /\ new_internships # <<>>
    /\ Len(subscribers) = 2
    /\ Successes = 0
    /\ writes = <<2>>

\* C5: a run on the feed the previous run saw finds nothing new and leaves
\* the identifiers of the file as that previous run left them.
C5_Idempotent ==
    (PastFetch /\ replay) =>
        /\ new_internships = <<>>
        /\ DiskIds(disk) = DiskIds(diskAtLoad)
        /\ pc = "done" => disk = diskAtLoad

C5_Witness ==
    /\ pc = "done"
    /\ replay
    /\ detected
    /\ Cardinality(IdsOf(all_internships)) = 2
    /\ reportedBefore = IdsOf(all_internships)

RECURSIVE PagesInOrder(_)
\* The normalized batch: the kept items of pages 1..n, page 1 first, the
\* order within a page kept.
PagesInOrder(n) ==
    IF n = 0 THEN <<>>
    ELSE PagesInOrder(n - 1) \o ProcessAll(upstream[n].data)

RECURSIVE FirstNew(_, _, _)
\* The listings B[i..] whose id is not in S and occurs at no earlier place of B.
FirstNew(B, S, i) ==
    IF i > Len(B) THEN <<>>
    ELSE IF B[i].id \notin S /\ \A j \in 1..(i - 1) : B[j].id # B[i].id
         THEN <<B[i]>> \o FirstNew(B, S, i + 1)
         ELSE FirstNew(B, S, i + 1)

NotIn(S, listing) == listing.id \notin S

\* C6 as stated: the new list is the subsequence of the batch of all listings
\* whose id is not in the loaded seen set, and the seen set afterwards is the
\* loaded one united with the ids of the batch.
C6_NewIsAllUnseen ==
    pc = "subscribers" =>
        /\ new_internships =
              SelectSeq(all_internships, LAMBDA l : NotIn(seenAtLoad, l))
        /\ seen_internships = seenAtLoad \cup IdsOf(all_internships)

\* C6 amended: when get_all_internships returns, the batch is the kept items
\* of the requested pages in encounter order; when the detector has run, the
\* new list is the subsequence of the batch of the listings whose id is not in
\* the loaded seen set and has not occurred earlier in the batch, and the seen
\* set is the loaded one united with the ids of the batch.
C6_NewIsFirstUnseen ==
    /\ pc = "check" => all_internships = PagesInOrder(Len(requested))
    /\ pc = "subscribers" =>
          /\ detected
          /\ new_internships = FirstNew(all_internships, seenAtLoad, 1)
          /\ seen_internships = seenAtLoad \cup IdsOf(all_internships)

C6_Witness ==
    /\ pc = "subscribers"
    /\ Len(requested) = 2
    /\ Len(all_internships) = 3
    /\ Len(new_internships) = 1
    /\ seenAtLoad # {}
    /\ all_internships[1].id \in seenAtLoad
    /\ all_internships[3].id = all_internships[2].id

\* The amount process_internship_data reads: stipend, else internship_fee.
AmountOf(d) == Or(Get(d.stipend), Get(d.internship_fee))

\* C7: for every raw item that is kept, the stipend display is the
\* currency-prefixed amount whenever an amount is present, whatever the type;
\* without an amount it is "Paid" for type "Paid", "Free" for type "Free" and
\* empty otherwise.
C7_AmountAlwaysWins ==
    (nstage = "output" /\ processed # <<>>) =>
        LET listing == processed[1]
            amount  == AmountOf(data)
        IN  IF Truthy(amount) THEN listing.stipend = "Rs." \o StrOf(amount)
            ELSE IF listing.type = "Paid" THEN listing.stipend = "Paid"
            ELSE IF listing.type = "Free" THEN listing.stipend = "Free"
            ELSE listing.stipend = ""

\* The declared last page of an answer (1 when the envelope names none).
DeclaredLastPage(r) == IF r.last_page.k = "num" THEN r.last_page.n ELSE 1

\* Page k's answer r ends the pagination: the fetch failed, the envelope is
\* malformed (no item array, a null last page), there are no items, or k has
\* reached the declared last page.
Stops(k, r) ==
    \/ r.kind \in FailureKinds
    \/ r.last_page.k = "none"
    \/ r.data = <<>>
    \/ k >= DeclaredLastPage(r)

\* C8: the pages requested are 1, 2, 3, ... without gap or repeat; while
\* get_all_internships loops, no requested page has stopped the pagination and
\* the next page lies within the last page its predecessor declared; when it
\* returns, the last requested page is the first that stops the pagination.
C8_PaginationBounded ==
    /\ requested = [i \in 1..Len(requested) |-> i]
    /\ Len(requested) <= Len(upstream)
    /\ pc = "fetch" =>
          /\ page = Len(requested) + 1
          /\ \A k \in 1..Len(requested) : ~Stops(k, upstream[k])
          /\ page > 1 => page <= DeclaredLastPage(upstream[page - 1])
    /\ pc = "check" =>
          /\ requested # <<>>
          /\ Stops(Len(requested), upstream[Len(requested)])
          /\ \A k \in 1..(Len(requested) - 1) :
                /\ ~Stops(k, upstream[k])
                /\ k + 1 <= DeclaredLastPage(upstream[k])

C8_Witness ==
    /\ pc = "check"
    /\ requested = <<1, 2>>
    /\ upstream[1].last_page = Num(2)
    /\ upstream[2].last_page = Num(2)
    /\ upstream[2].data # <<>>
    /\ Len(all_internships) = 3

SomeFetchFailed == \E k \in 1..Len(requested) : upstream[k].kind \in FailureKinds
FirstFetchFailed == requested # <<>> /\ upstream[1].kind \in FailureKinds

\* C9 as stated: in a finished run one of whose page fetches failed, the
\* change detector did not run and the seen set, in memory and on disk, is as
\* it was loaded.
C9_AnyFailureSkipsDetector ==
    (pc = "done" /\ SomeFetchFailed) =>
        /\ ~detected
        /\ seen_internships = seenAtLoad
        /\ disk = diskAtLoad

\* C9 amended: in a finished run whose fetch of page 1 failed, the change
\* detector did not run, nothing was sent and the seen set, in memory and on
\* disk, is as it was loaded; a failure on a later page only ends the
\* pagination, and the detector then runs exactly when the earlier pages
\* yielded a listing.
C9_FirstPageFailureSkipsDetector ==
    /\ (pc = "done" /\ FirstFetchFailed) =>
          /\ ~detected
          /\ attempts = <<>>
          /\ seen_internships = seenAtLoad
          /\ disk = diskAtLoad
    /\ (pc = "done" /\ SomeFetchFailed) => (detected <=> all_internships # <<>>)

C9_Witness ==
    /\ pc = "done"
    /\ FirstFetchFailed
    /\ upstream[1].kind = "app_error"
    /\ diskAtLoad.state = "valid"
    /\ seenAtLoad # {}

\* C10: a listing found new in a run is in the file at the end of that run,
\* however its deliveries went, and no later run has it in its new list.
C10_SeenDespiteFailedDelivery ==
    /\ (pc = "done" /\ detected) =>
          IdsOf(new_internships) \subseteq DiskIds(disk)
    /\ IdsOf(new_internships) \cap reportedBefore = {}
    /\ pc = "idle" => reportedBefore \subseteq DiskIds(disk)

C10_Witness ==
    /\ pc = "done"
    /\ new_internships # <<>>
    /\ attempts # <<>>
    /\ Successes = 0
    /\ reportedBefore # {}

\* The load of this run degraded to the empty set: no file, or no parse.
LoadDegraded == diskAtLoad.state # "valid"

\* C11 as stated: an identifier the file once held is in the file at the end
\* of every later run, also of a run whose load found the file missing or
\* unparseable.
C11_DurableNeverShrinks ==
    pc = "done" => everOnDisk \subseteq DiskIds(disk)

\* C11 amended: within a run the in-memory set holds all it loaded and the
\* file holds all the run loaded from it; a run whose load read the file
\* leaves every identifier the file held in it; a run whose load degraded to
\* the empty set and that writes the file leaves in it the identifiers of
\* its batch and no other, whatever the file held before it was lost.
C11_NeverShrinksWhenLoaded ==
    pc # "idle" =>
        /\ seenAtLoad = DiskIds(diskAtLoad)
        /\ seenAtLoad \subseteq seen_internships
        /\ DiskIds(diskAtLoad) \subseteq DiskIds(disk)
        /\ DiskIds(disk) \subseteq everOnDisk
        /\ (LoadDegraded /\ writes # <<>>) => DiskIds(disk) = IdsOf(all_internships)

C11_Witness ==
    /\ pc = "done"
    /\ LoadDegraded
    /\ writes # <<>>
    /\ ~(everOnDisk \subseteq DiskIds(disk))
    /\ DiskIds(disk) = IdsOf(all_internships)

\* The cell of a data row under the column the header names "email", "" if
\* the header names none or the row is too short.
AddressCell(lines, row) ==
    LET named == {i \in 1..Len(lines[1]) : Lower(Strip(lines[1][i])) = "email"}
    IN  IF named = {} THEN ""
        ELSE LET col == CHOOSE i \in named : \A j \in named : i <= j
             IN  IF col > Len(row) THEN "" ELSE Strip(row[col])

\* Why a subscriber list comes out empty.
NotConfigured(csv) == ~csv.url_set
FetchFailed(csv) == csv.url_set /\ ~csv.fetch_ok
NoValidRows(csv) ==
    /\ csv.url_set
    /\ csv.fetch_ok
    /\ \A k \in 2..Len(csv.lines) : ~HasAt(AddressCell(csv.lines, csv.lines[k]))

\* The subject of the run's variant: has-new or no-new.
VariantSubject ==
    IF new_internships # <<>> THEN SubjectNew(new_internships) ELSE SubjectNoNew

\* C12: the subscriber list of a run is empty exactly when the source is not
\* configured, its fetch failed or it has no valid row; such a run makes
\* exactly one send, to the default recipient and with the subject of its
\* variant (has-new or no-new); with a non-empty list every send goes to a
\* subscriber, so the default recipient gets a message only as a subscriber.
C12_DefaultRecipientFallback ==
    /\ (pc \in {"dispatch", "save", "done"} /\ detected) =>
          (subscribers = <<>> <=>
              NotConfigured(csvRead) \/ FetchFailed(csvRead) \/ NoValidRows(csvRead))
    /\ (pc \in {"save", "done"} /\ detected /\ subscribers = <<>>) =>
          /\ Len(attempts) = 1
          /\ attempts[1].to = recipient_email
          /\ attempts[1].subject = VariantSubject
    /\ (pc = "dispatch" /\ subscribers = <<>>) => attempts = <<>>
    /\ subscribers # <<>> =>
          \A i \in 1..Len(attempts) :
              /\ \E j \in 1..Len(subscribers) : attempts[i].to = subscribers[j]
              /\ attempts[i].subject = VariantSubject

C12_Witness ==
    /\ pc = "done"
    /\ new_internships # <<>>
    /\ NoValidRows(csvRead)
    /\ Len(csvRead.lines) = 3
    /\ subscribers = <<>>
    /\ Len(attempts) = 1
    /\ attempts[1].to = recipient_email
    /\ ~attempts[1].ok

\* A field is a string that is non-empty after trimming.
NonEmptyText(v) == v.k = "str" /\ Strip(v.s) # ""

\* The raw item has a title and a company name, both non-empty after trimming.
HasTitleAndCompany(d) ==
    /\ NonEmptyText(d.title)
    /\ d.company.k = "dict"
    /\ NonEmptyText(d.company_name)

\* C13: a raw item is kept if and only if its title and its company name
\* are both non-empty after trimming, whatever the values of its other
\* fields.
C13_KeptIffTitleAndCompany ==
    nstage = "output" => (processed # <<>> <=> HasTitleAndCompany(data))

SomeSettingAbsent == \E key \in ConfigKeys : ~environ[key]

\* C14: a run in which a mail setting is absent ends in the constructor: the
\* construction fails, no page is requested, no message is sent and the file
\* is neither written nor changed; a run with all three settings set does not
\* fail in the constructor.
C14_ConfigErrorIsFatal ==
    /\ (pc # "idle" /\ SomeSettingAbsent) =>
          /\ pc = "failed"
          /\ requested = <<>>
          /\ attempts = <<>>
          /\ writes = <<>>
          /\ disk = diskAtLoad
          /\ ~detected
    /\ pc = "failed" => SomeSettingAbsent

C14_Witness ==
    /\ pc = "failed"
    /\ ~environ["RECIPIENT_EMAIL"]
    /\ environ["SENDER_EMAIL"]
    /\ environ["SENDER_PASSWORD"]
    /\ disk.state = "valid"
    /\ seen_internships # {}

\* The place of the first listing of the batch B that has the id of l.
FirstPlace(B, l) == CHOOSE k \in 1..Len(B) : B[k].id = l.id /\ \A j \in 1..(k - 1) : B[j].id # l.id

\* C15: once the detector has run, no two listings of the new list have the
\* same id; each is the first listing of the batch with its id, and the new
\* list keeps the batch's order; every id of the batch is in the seen set,
\* so a later occurrence is not reported; a raw item without an id is kept
\* under the empty-string id.
C15_NewIdsDistinct ==
    pc = "subscribers" =>
        /\ \A i, j \in 1..Len(new_internships) :
              new_internships[i].id = new_internships[j].id => i = j
        /\ \A i \in 1..Len(new_internships) :
              /\ new_internships[i].id \notin seenAtLoad
              /\ new_internships[i] =
                    all_internships[FirstPlace(all_internships, new_internships[i])]
        /\ \A i, j \in 1..Len(new_internships) :
              i < j => FirstPlace(all_internships, new_internships[i])
                         < FirstPlace(all_internships, new_internships[j])
        /\ IdsOf(new_internships) = IdsOf(all_internships) \ seenAtLoad
        /\ IdsOf(all_internships) \subseteq seen_internships
        /\ \A k \in 1..Len(requested) : \A n \in 1..Len(upstream[k].data) :
              LET raw == upstream[k].data[n]
              IN  (raw.id = Absent /\ process_internship_data(raw) # <<>>) =>
                      process_internship_data(raw)[1].id = ""

C15_Witness ==
    /\ pc = "subscribers"
    /\ requested = <<1, 2>>
    /\ Len(upstream[1].data) = 2
    /\ upstream[1].data[1].id = Absent
    /\ Len(all_internships) = 3
    /\ \A k \in 1..3 : all_internships[k].id = ""
    /\ Len(new_internships) = 1
    /\ new_internships[1] = all_internships[1]

=============================================================================
